---- MODULE Spec2Model ----
(***************************************************************************)
(* A model of gopy's front end: the tokenizer (lexer/lexer.go) and the     *)
(* Pratt parser (package parser), run as StartParseRepl runs them: the     *)
(* source is lexed one loop iteration at a time, then parsed one           *)
(* top-level statement at a time.                                          *)
(*                                                                         *)
(* Strings are sequences of one-character strings.  Indices are Go's       *)
(* (0-based); the element at Go index i of a sequence s is s[i + 1].       *)
(* A Go runtime panic (index out of range) is the flag `panicked`.         *)
(***************************************************************************)
EXTENDS Integers, Sequences, FiniteSets, TLC

VARIABLES l, p, pc, returned, environment

vars == <<l, p, pc, returned, environment>>

----------------------------------------------------------------------------
(* Characters (unicode.IsLetter, unicode.IsDigit, unicode.IsSpace)         *)

Letters == {"a", "b", "c", "d", "e", "f", "g", "h", "i", "j", "k", "l", "m",
            "n", "o", "p", "q", "r", "s", "t", "u", "v", "w", "x", "y", "z"}

Digits == {"0", "1", "2", "3", "4", "5", "6", "7", "8", "9"}

Spaces == {" ", "\n", "\t", "\r"}

IsLetter(c) == c \in Letters

IsDigit(c) == c \in Digits

IsSpace(c) == c \in Spaces

----------------------------------------------------------------------------
(* lexer/lexer.go                                                          *)

TokenKeyword == 1
TokenPunct == 2
TokenIdent == 3
TokenInt == 4
TokenString == 5

\* Token{Name, Val, Pos{row, col}}
Token(name, val, row, col) == [Name |-> name, Val |-> val, row |-> row, col |-> col]

\* the rune peek reports when it indexes the input outside its bounds
OutOfRange == "out of range"

\* func (l *Lexer) peek() (rune, error); Parser.peek is `peek` below
peekRune(lx) ==
    IF lx.index + 1 # Len(lx.input)
    THEN [r |-> IF lx.index + 1 < Len(lx.input) THEN lx.input[lx.index + 2] ELSE OutOfRange,
          err |-> FALSE]
    ELSE [r |-> " ", err |-> TRUE]

\* func (l *Lexer) lexTab()
lexTab(lx) ==
    [lx EXCEPT !.column = @ + 3,
               !.tokens = Append(@, Token("INDENT", <<"I", "N", "D", "E", "N", "T">>,
                                          lx.line, lx.column))]

\* func (l *Lexer) lexPunct(name TokenType, val string)
lexPunct(lx, name, val) ==
    [lx EXCEPT !.currentType = TokenPunct,
               !.tokens = Append(@, Token(name, val, lx.line, lx.column))]

reserved == {<<"i", "f">>, <<"e", "l", "i", "f">>, <<"e", "l", "s", "e">>,
             <<"w", "h", "i", "l", "e">>, <<"f", "o", "r">>, <<"i", "n">>,
             <<"p", "r", "i", "n", "t">>, <<"i", "n", "t">>, <<"s", "t", "r">>,
             <<"a", "n", "d">>, <<"o", "r">>}

\* the switch of lexText: the keyword kind of a reserved word
keywordName(val) ==
    CASE val = <<"i", "f">> -> "IF"
      [] val = <<"e", "l", "i", "f">> -> "ELIF"
      [] val = <<"e", "l", "s", "e">> -> "ELSE"
      [] val = <<"w", "h", "i", "l", "e">> -> "WHILE"
      [] val = <<"f", "o", "r">> -> "FOR"
      [] val = <<"i", "n">> -> "IN"
      [] val = <<"p", "r", "i", "n", "t">> -> "PRINT"
      [] val = <<"i", "n", "t">> -> "INT"
      [] val = <<"s", "t", "r">> -> "STR"
      [] val = <<"a", "n", "d">> -> "AND"
      [] val = <<"o", "r">> -> "OR"

\* func (l *Lexer) lexText(val string)
lexText(lx, val) ==
    LET n == Len(lx.tokens)
        last == lx.tokens[n]
        tok == IF lx.currentType = TokenKeyword
               THEN [last EXCEPT !.Name = "IDENT", !.Val = @ \o val]
               ELSE IF lx.currentType = TokenIdent
               THEN [last EXCEPT !.Val = @ \o val]
               ELSE Token("IDENT", val, lx.line, lx.column)
        rest == IF lx.currentType \in {TokenKeyword, TokenIdent}
                THEN SubSeq(lx.tokens, 1, n - 1)
                ELSE lx.tokens
        named == IF tok.Val \in reserved
                 THEN [tok EXCEPT !.Name = keywordName(tok.Val)]
                 ELSE tok
    IN [lx EXCEPT !.currentType = TokenIdent, !.tokens = Append(rest, named)]

\* the scanning loops of lexString and lexInt: advance while `more(next)`
RECURSIVE scan(_, _, _)
scan(lx, next, stopAtQuote) ==
    IF (IF stopAtQuote THEN next # "\"" ELSE IsDigit(next))
    THEN LET lx1 == [lx EXCEPT !.index = @ + 1]
             pk == peekRune(lx1)
         IN IF pk.err THEN lx1 ELSE scan(lx1, pk.r, stopAtQuote)
    ELSE lx

\* func (l *Lexer) lexString()
lexString(lx) ==
    LET lx1 == [lx EXCEPT !.index = @ + 1, !.currentType = TokenString]
        start == lx1.index
        pk == peekRune(lx1)
    IN IF pk.err
       THEN [lx1 EXCEPT !.tokens = Append(@, Token("ILLEGAL", <<>>, lx.line, lx.column))]
       ELSE IF pk.r = OutOfRange
       THEN [lx1 EXCEPT !.panicked = TRUE]
       ELSE LET lx2 == scan(lx1, pk.r, TRUE)
            IN [lx2 EXCEPT !.tokens = Append(@, Token("STRING",
                                                      SubSeq(lx.input, start + 1, lx2.index + 1),
                                                      lx.line, lx.column)),
                           !.index = @ + 1]

\* func (l *Lexer) lexInt()
lexInt(lx) ==
    LET lx1 == [lx EXCEPT !.currentType = TokenInt]
        start == lx.index
        pk == peekRune(lx1)
    IN IF pk.err
       THEN [lx1 EXCEPT !.tokens = Append(@, Token("NUM", <<lx.input[start + 1]>>,
                                                   lx.line, lx.column))]
       ELSE LET lx2 == scan(lx1, pk.r, FALSE)
            IN [lx2 EXCEPT !.tokens = Append(@, Token("NUM",
                                                      SubSeq(lx.input, start + 1, lx2.index + 1),
                                                      lx.line, lx.column))]

\* func (l *Lexer) lexNL()
lexNL(lx) ==
    [lx EXCEPT !.tokens = Append(@, Token("NEWLINE", <<"N", "E", "W", "L", "I", "N", "E">>,
                                          lx.line, lx.column))]

\* the skipping loop of nextLine
RECURSIVE skipLine(_)
skipLine(lx) ==
    IF lx.input[lx.index + 1] # "\n" /\ lx.index < Len(lx.input) - 1
    THEN skipLine([lx EXCEPT !.index = @ + 1])
    ELSE lx

\* func (l *Lexer) nextLine()
nextLine(lx) ==
    skipLine([lx EXCEPT !.line = @ + 1, !.column = 0, !.currentType = -1])

\* the cases of lex that look one character ahead for '=':
\* lexPunct the compound operator and step over its second character,
\* or lexPunct the single character
lexLookahead(lx, name2, val2, name1, val1) ==
    LET pk == peekRune(lx)
    IN IF pk.r = "=" /\ ~pk.err
       THEN [lexPunct(lx, name2, val2) EXCEPT !.index = @ + 1, !.column = @ + 1]
       ELSE lexPunct(lx, name1, val1)

\* case '!' of lex: the compound branch does not step over the '='
lexBang(lx) ==
    LET pk == peekRune(lx)
    IN IF pk.r = "=" /\ ~pk.err
       THEN lexPunct(lx, "!=", <<"!", "=">>)
       ELSE lexPunct(lx, "!", <<"!">>)

\* the default case of the switch of lex
lexDefault(lx) ==
    LET c == lx.current
    IN IF IsSpace(c) THEN [lx EXCEPT !.currentType = -1]
       ELSE IF c = "\n" \/ c = "#" THEN nextLine(lx)
       ELSE IF IsDigit(c)
       THEN IF lx.currentType = TokenIdent \/ lx.currentType = TokenKeyword
            THEN lexText(lx, <<c>>)
            ELSE lexInt(lx)
       ELSE IF IsLetter(c) \/ c = "_" THEN lexText(lx, <<c>>)
       ELSE [lx EXCEPT !.tokens = Append(@, Token("ILLEGAL", <<"n", "i", "l">>, 0, 0))]

\* the switch of lex on l.current
lexSwitch(lx) ==
    LET c == lx.current
    IN CASE c = "\n" -> nextLine(lexNL(lx))
         [] c = "\t" -> lexTab(lx)
         [] c = "=" -> lexLookahead(lx, "==", <<"=", "=">>, "=", <<"=">>)
         [] c = "<" -> lexLookahead(lx, "<=", <<"<", "=">>, "<", <<"<">>)
         [] c = ">" -> lexLookahead(lx, ">=", <<">", "=">>, ">", <<">">>)
         [] c = "!" -> lexBang(lx)
         [] c = ":" -> lexPunct(lx, ":", <<":">>)
         [] c = "(" -> lexPunct(lx, "(", <<"(">>)
         [] c = ")" -> lexPunct(lx, ")", <<")">>)
         [] c = "+" -> lexLookahead(lx, "+=", <<"+", "=">>, "+", <<"+">>)
         [] c = "-" -> lexLookahead(lx, "-=", <<"-", "=">>, "-", <<"-">>)
         [] c = "*" -> lexLookahead(lx, "*=", <<"*", "=">>, "*", <<"*">>)
         [] c = "/" -> lexLookahead(lx, "/=", <<"/", "=">>, "/", <<"/">>)
         [] c = "^" -> lexLookahead(lx, "^=", <<"^", "=">>, "^", <<"^">>)
         [] c = "%" -> lexLookahead(lx, "%=", <<"%", "=">>, "%", <<"%">>)
         [] c = "," -> lexPunct(lx, ",", <<",">>)
         [] c = "\"" -> lexString(lx)
         [] OTHER -> lexDefault(lx)

\* one iteration of the loop of lex: read l.input[l.index], switch, step
lexIter(lx) ==
    IF lx.index >= Len(lx.input)
    THEN [lx EXCEPT !.panicked = TRUE]
    ELSE LET lx1 == lexSwitch([lx EXCEPT !.current = lx.input[lx.index + 1]])
         IN IF lx1.panicked THEN lx1
            ELSE [lx1 EXCEPT !.index = @ + 1, !.column = @ + 1]

\* StartLex with the line counter kept from the Lexer of the call before
NewLexerKeepsLine(input) ==
    [index |-> 0, input |-> input, line |-> l.line, column |-> 0, current |-> " ",
     currentType |-> 0, tokens |-> <<>>, panicked |-> FALSE]

\* l := &Lexer{...} of StartLex
NewLexer(input) ==
    [index |-> 0, input |-> input, line |-> 1, column |-> 0, current |-> " ",
     currentType |-> 0, tokens |-> <<>>, panicked |-> FALSE]

\* StartLex with the append of the EOF token left out
appendEOFOmitted(lx) == lx

\* the tail of StartLex: append the EOF token
appendEOF(lx) ==
    [lx EXCEPT !.tokens = Append(@, Token("EOF", <<>>, lx.line + 1, 0))]

----------------------------------------------------------------------------
(* package parser                                                          *)

LOWEST == 1
EQUALS == 2
GTLT == 3
SUM == 4
PRODUCT == 5
PREFIX == 6
CALL == 7
AND == 8

\* var precedence = map[lexer.TokenType]int{...}
precedence ==
    [t \in {"==", "!=", "<", "<=", ">", ">=", "AND", "OR", "+", "+=", "-", "-=",
            "/", "/=", "*", "*=", "("} |->
        CASE t \in {"==", "!="} -> EQUALS
          [] t \in {"<", "<=", ">", ">=", "AND", "OR"} -> GTLT
          [] t \in {"+", "+=", "-", "-="} -> SUM
          [] t \in {"/", "/=", "*", "*="} -> PRODUCT
          [] t = "(" -> CALL]

\* registerFixes: p.prefixParseFns, by handler name ("nil": none registered)
prefixParseFns(t) ==
    CASE t = "IDENT" -> "parseIdent"
      [] t = "NUM" -> "parseIntLiteral"
      [] t = "STRING" -> "parseStrLiteral"
      [] t = "-" -> "parsePrefixExpr"
      [] t = "(" -> "parseGroupingExpr"
      [] t = "IF" -> "parseIfExpr"
      [] t = "WHILE" -> "parseWhileExpr"
      [] t = "STR" -> "parseStrLiteral"
      [] t = "INT" -> "parseIntLiteral"
      [] OTHER -> "nil"

\* registerFixes: p.infixParseFns, by handler name ("nil": none registered)
infixParseFns(t) ==
    CASE t \in {"==", "!=", "+", "+=", "-", "-=", "/", "/=", "*", "*=",
                ">", ">=", "<=", "AND"} -> "parseInfixExpr"
      [] t = "(" -> "parseCallExpr"
      [] OTHER -> "nil"

\* the zero value lexer.Token{}
ZeroToken == Token("", <<>>, 0, 0)

\* what a read of p.tokens outside its bounds yields: Go panics there; the
\* model halts the parse instead (the sentinel reads as end of input, so no
\* handler moves on) and the out-of-range cursor stays visible in p.index
Halt == Token("EOF", <<"p", "a", "n", "i", "c">>, 0, 0)

\* func (p *Parser) current() lexer.Token
current(ps) ==
    IF 0 <= ps.index /\ ps.index < Len(ps.tokens) THEN ps.tokens[ps.index + 1] ELSE Halt

\* func (p *Parser) end() bool
end(ps) == current(ps).Name = "EOF"

\* func (p *Parser) peek() lexer.Token
peek(ps) ==
    IF ~end(ps)
    THEN IF ps.index + 1 < Len(ps.tokens) THEN ps.tokens[ps.index + 2] ELSE Halt
    ELSE ZeroToken

\* next without the `if !p.end()` guard
nextUnguarded(ps) ==
    [ps EXCEPT !.index = @ + 1, !.trail = Append(@, ps.index + 1)]

\* func (p *Parser) next(); trail records every value the cursor takes
next(ps) ==
    IF ~end(ps)
    THEN [ps EXCEPT !.index = @ + 1, !.trail = Append(@, ps.index + 1)]
    ELSE ps

\* func (p *Parser) checkCurrent(t lexer.TokenType) bool
checkCurrent(ps, t) == IF end(ps) THEN FALSE ELSE current(ps).Name = t

\* func (p *Parser) checkPeek(t lexer.TokenType) bool
checkPeek(ps, t) == IF end(ps) THEN FALSE ELSE peek(ps).Name = t

\* func (p *Parser) peekError(t lexer.TokenType)
peekError(ps, t) ==
    [ps EXCEPT !.errors = Append(@, [kind |-> "expected", expected |-> t,
                                     got |-> peek(ps).Name,
                                     row |-> peek(ps).row, col |-> peek(ps).col])]

\* func (p *Parser) expectCurrent(t lexer.TokenType) bool
expectCurrent(ps, t) ==
    IF checkCurrent(ps, t) THEN [p |-> next(ps), ok |-> TRUE] ELSE [p |-> ps, ok |-> FALSE]

\* expectPeek stepping to the next token when the check fails as well
expectPeekSteps(ps, t) ==
    IF checkPeek(ps, t)
    THEN [p |-> next(ps), ok |-> TRUE]
    ELSE [p |-> next(peekError(ps, t)), ok |-> FALSE]

\* func (p *Parser) expectPeek(t lexer.TokenType) bool
expectPeek(ps, t) ==
    IF checkPeek(ps, t)
    THEN [p |-> next(ps), ok |-> TRUE]
    ELSE [p |-> peekError(ps, t), ok |-> FALSE]

\* func (p *Parser) currentPrec() int
currentPrec(ps) ==
    IF current(ps).Name \in DOMAIN precedence THEN precedence[current(ps).Name] ELSE LOWEST

\* func (p *Parser) peekPrec() int
peekPrec(ps) ==
    IF peek(ps).Name \in DOMAIN precedence THEN precedence[peek(ps).Name] ELSE LOWEST

----------------------------------------------------------------------------
(* strconv                                                                 *)

DigitValue(c) ==
    CASE c = "0" -> 0 [] c = "1" -> 1 [] c = "2" -> 2 [] c = "3" -> 3 [] c = "4" -> 4
      [] c = "5" -> 5 [] c = "6" -> 6 [] c = "7" -> 7 [] c = "8" -> 8 [] c = "9" -> 9

DigitChar(d) ==
    CASE d = 0 -> "0" [] d = 1 -> "1" [] d = 2 -> "2" [] d = 3 -> "3" [] d = 4 -> "4"
      [] d = 5 -> "5" [] d = 6 -> "6" [] d = 7 -> "7" [] d = 8 -> "8" [] d = 9 -> "9"

\* the value of the digits s in the given base, most significant first
RECURSIVE Horner(_, _, _)
Horner(s, base, acc) ==
    IF s = <<>> THEN acc ELSE Horner(Tail(s), base, acc * base + DigitValue(Head(s)))

\* the digits of 1<<63 - 1, the largest value of 64 bits
MaxInt64 ==
    <<"9", "2", "2", "3", "3", "7", "2", "0", "3", "6", "8", "5", "4", "7", "7", "5", "8", "0", "7">>

\* s without its leading zeros
RECURSIVE DropZeros(_)
DropZeros(s) == IF s # <<>> /\ Head(s) = "0" THEN DropZeros(Tail(s)) ELSE s

\* of two digit strings of one length, a is the greater number
RECURSIVE DigitsAbove(_, _)
DigitsAbove(a, b) ==
    IF a = <<>> THEN FALSE
    ELSE IF Head(a) # Head(b) THEN DigitValue(Head(a)) > DigitValue(Head(b))
    ELSE DigitsAbove(Tail(a), Tail(b))

\* the digits d, without leading zeros, are a value above 1<<63 - 1
\* (in base 8 that value is 21 digits 7)
OutOfInt64(d, base) ==
    IF base = 8 THEN Len(d) > 21
    ELSE Len(d) > 19 \/ (Len(d) = 19 /\ DigitsAbove(d, MaxInt64))

\* the int64 the digits d stand for; a value of more than 9 decimal or 10
\* octal digits is carried as its digits and their base
Int64Of(d, base) ==
    IF Len(d) <= (IF base = 8 THEN 10 ELSE 9)
    THEN Horner(d, base, 0)
    ELSE [base |-> base, digits |-> d]

\* strconv.ParseInt without the range error
ParseIntNoRange(s) ==
    IF s = <<>> \/ \E i \in 1..Len(s) : ~IsDigit(s[i])
    THEN [err |-> TRUE, val |-> 0]
    ELSE LET base == IF s[1] = "0" THEN 8 ELSE 10
         IN IF base = 8 /\ \E i \in 2..Len(s) : DigitValue(s[i]) > 7
            THEN [err |-> TRUE, val |-> 0]
            ELSE [err |-> FALSE, val |-> Int64Of(DropZeros(s), base)]

\* strconv.ParseInt(s, 0, 64) on the texts a token can carry (digits and
\* letters, no sign, no underscore): base 0 reads a leading "0" as the octal
\* prefix, and a value that does not fit 64 bits is a range error.
ParseInt(s) ==
    IF s = <<>> \/ \E i \in 1..Len(s) : ~IsDigit(s[i])
    THEN [err |-> TRUE, val |-> 0]
    ELSE LET base == IF s[1] = "0" THEN 8 ELSE 10
         IN IF base = 8 /\ \E i \in 2..Len(s) : DigitValue(s[i]) > 7
            THEN [err |-> TRUE, val |-> 0]
            ELSE IF OutOfInt64(DropZeros(s), base)
            THEN [err |-> TRUE, val |-> 0]
            ELSE [err |-> FALSE, val |-> Int64Of(DropZeros(s), base)]

\* strconv.Itoa, for n >= 0
RECURSIVE Itoa(_)
Itoa(n) ==
    IF n < 10 THEN <<DigitChar(n)>> ELSE Append(Itoa(n \div 10), DigitChar(n % 10))

----------------------------------------------------------------------------
(* The handlers.  Each takes the parser and returns the parser it leaves   *)
(* and the node it returns: [p |-> parser, n |-> node].  A nil node is     *)
(* Nil.  Nodes carry their children and literal values; the Token field    *)
(* of a node is left out.                                                  *)

Nil == [type |-> "nil"]

\* a nil *ast.VarStmt returned as an ast.Stmt: a non-nil interface value
NilVarStmt == [type |-> "nil *VarStmt"]

\* the nodes of package ast
Identifier(val) == [type |-> "Identifier", Val |-> val]

IntLiteral(value) == [type |-> "IntLiteral", Value |-> value]

StrLiteral(value) == [type |-> "StrLiteral", Value |-> value]

PrefixExpr(op, expr) == [type |-> "PrefixExpr", Op |-> op, Expr |-> expr]

InfixExpr(left, op, right) == [type |-> "InfixExpr", Left |-> left, Op |-> op, Right |-> right]

IfExpr(cond, pass, fail) == [type |-> "IfExpr", Cond |-> cond, Pass |-> pass, Fail |-> fail]

WhileExpr(cond, body) == [type |-> "WhileExpr", Cond |-> cond, Body |-> body]

BlockStmt(stmts) == [type |-> "BlockStmt", Stmts |-> stmts]

CallExpr(fn, args) == [type |-> "CallExpr", Func |-> fn, Args |-> args]

VarStmt(ident, value) == [type |-> "VarStmt", Ident |-> ident, Value |-> value]

ExprStmt(expr) == [type |-> "ExprStmt", Expr |-> expr]

\* func (il *IntLiteral) String() string
IntLiteralString(il) == Itoa(il.Value)

\* A call of a handler, by name: the calls through p.prefixParseFns and
\* p.infixParseFns, and the calls of parseStmt, parseExpr, parseBlockStmt
\* and of the loops from inside the handlers.  x is the argument beside the
\* parser: the precedence, the left operand, or the state of a loop.
RECURSIVE call(_, _, _)

\* history: an iteration of the named loop began with the cursor at `from`
\* and has left it where it is now
logIter(ps, loop, from) ==
    [ps EXCEPT !.iters = Append(@, [loop |-> loop, from |-> from, to |-> ps.index])]

\* func (p *Parser) parseIdent() ast.Expr
parseIdent(ps) == [p |-> ps, n |-> Identifier(current(ps).Val)]

\* parseIntLiteral with `il.Value = val` left out: Value keeps its zero value
parseIntLiteralUnset(ps) ==
    LET r == ParseInt(current(ps).Val)
    IN IF r.err
       THEN [p |-> [ps EXCEPT !.errors = Append(@, [kind |-> "int", val |-> current(ps).Val])],
             n |-> Nil]
       ELSE [p |-> ps, n |-> IntLiteral(0)]

\* func (p *Parser) parseIntLiteral() ast.Expr
parseIntLiteral(ps) ==
    LET r == ParseInt(current(ps).Val)
    IN IF r.err
       THEN [p |-> [ps EXCEPT !.errors = Append(@, [kind |-> "int", val |-> current(ps).Val])],
             n |-> Nil]
       ELSE [p |-> ps, n |-> IntLiteral(r.val)]

\* func (p *Parser) parseStrLiteral() ast.Expr
parseStrLiteral(ps) == [p |-> ps, n |-> StrLiteral(current(ps).Val)]

\* the loop of parseVarStmt: skip to the newline or the end
RECURSIVE skipStmt(_)
skipStmt(ps) ==
    IF ~checkCurrent(ps, "NEWLINE") /\ ~end(ps)
    THEN skipStmt(logIter(next(ps), "parseVarStmt", ps.index))
    ELSE ps

\* func (p *Parser) parseVarStmt() *ast.VarStmt
parseVarStmt(ps) ==
    LET e == expectPeek(ps, "=")
    IN IF ~e.ok
       THEN [p |-> e.p, n |-> NilVarStmt]
       ELSE LET r == call("parseExpr", next(e.p), LOWEST)
            IN [p |-> skipStmt(r.p), n |-> VarStmt(Identifier(current(ps).Val), r.n)]

\* func (p *Parser) parseExprStmt() *ast.ExprStmt
parseExprStmt(ps) ==
    LET r == call("parseExpr", ps, LOWEST)
    IN [p |-> r.p, n |-> ExprStmt(r.n)]

\* parseStmt without `case lexer.NL: return nil`
parseStmtNoNewlineCase(ps) ==
    CASE current(ps).Name = "IDENT" ->
            IF peek(ps).Name = "=" THEN parseVarStmt(ps) ELSE parseExprStmt(ps)
      [] OTHER -> parseExprStmt(ps)

\* func (p *Parser) parseStmt() ast.Stmt
parseStmt(ps) ==
    CASE current(ps).Name = "IDENT" ->
            IF peek(ps).Name = "=" THEN parseVarStmt(ps) ELSE parseExprStmt(ps)
      [] current(ps).Name = "NEWLINE" -> [p |-> ps, n |-> Nil]
      [] OTHER -> parseExprStmt(ps)

\* the loop of parseExpr, with left the operand parsed so far
parseExprLoop(ps, prec, left) ==
    IF ~checkCurrent(ps, "NEWLINE") /\ prec < peekPrec(ps)
    THEN LET in == infixParseFns(peek(ps).Name)
         IN IF in = "nil"
            THEN [p |-> ps, n |-> left]
            ELSE LET r == call(in, next(ps), left)
                 IN call("parseExprLoop", logIter(r.p, "parseExpr", ps.index),
                         [prec |-> prec, left |-> r.n])
    ELSE [p |-> ps, n |-> left]

\* func (p *Parser) parseExpr(precedence int) ast.Expr
parseExpr(ps, prec) ==
    LET pre == prefixParseFns(current(ps).Name)
    IN IF pre = "nil"
       THEN [p |-> ps, n |-> Nil]
       ELSE LET left == call(pre, ps, Nil)
            IN call("parseExprLoop", left.p, [prec |-> prec, left |-> left.n])

\* func (p *Parser) parsePrefixExpr() ast.Expr
parsePrefixExpr(ps) ==
    LET r == call("parseExpr", next(ps), PREFIX)
    IN [p |-> r.p, n |-> PrefixExpr(current(ps).Val, r.n)]

\* func (p *Parser) parseInfixExpr(l ast.Expr) ast.Expr
parseInfixExpr(ps, left) ==
    LET r == call("parseExpr", next(ps), currentPrec(ps))
    IN [p |-> r.p, n |-> InfixExpr(left, current(ps).Val, r.n)]

\* func (p *Parser) parseGroupingExpr() ast.Expr
parseGroupingExpr(ps) ==
    LET r == call("parseExpr", next(ps), LOWEST)
        e == expectPeek(r.p, ")")
    IN IF ~e.ok THEN [p |-> e.p, n |-> Nil] ELSE [p |-> e.p, n |-> r.n]

\* the first loop of parseBlockStmt: for p.checkPeek(lexer.INDENT) { p.next() }
RECURSIVE skipIndent(_)
skipIndent(ps) ==
    IF checkPeek(ps, "INDENT")
    THEN skipIndent(logIter(next(ps), "skipIndent", ps.index))
    ELSE ps

\* the inner loop of parseBlockStmt: skip newline and indent tokens
RECURSIVE skipBlank(_)
skipBlank(ps) ==
    IF checkCurrent(ps, "NEWLINE") \/ checkCurrent(ps, "INDENT")
    THEN skipBlank(logIter(next(ps), "skipBlank", ps.index))
    ELSE ps

\* the statement loop of parseBlockStmt, with stmts the statements so far
parseBlockLoop(ps, stmts) ==
    IF 4 * ps.indentLevel <= current(ps).col /\ ~end(ps)
    THEN LET r == call("parseStmt", ps, Nil)
         IN call("parseBlockLoop", logIter(skipBlank(next(r.p)), "parseBlockStmt", ps.index),
                 IF r.n.type # "nil" THEN Append(stmts, r.n) ELSE stmts)
    ELSE [p |-> ps, n |-> stmts]

\* history: a block parse that was entered at depth `entry` has raised the
\* depth to `level` ("enter"), or has lowered it to `level` and returns
logBlock(ps, ev, entry) ==
    [ps EXCEPT !.blocks = Append(@, [ev |-> ev, entry |-> entry, level |-> ps.indentLevel])]

\* parseBlockStmt without `p.indentLevel--`
parseBlockStmtNoDecrement(ps) ==
    LET p1 == next(skipIndent(next(ps)))
        p2 == logBlock([p1 EXCEPT !.indentLevel = @ + 1], "enter", ps.indentLevel)
        b == call("parseBlockLoop", p2, <<>>)
    IN [p |-> logBlock(b.p, "return", ps.indentLevel), n |-> BlockStmt(b.n)]

\* func (p *Parser) parseBlockStmt() *ast.BlockStmt
parseBlockStmt(ps) ==
    LET p1 == next(skipIndent(next(ps)))
        p2 == logBlock([p1 EXCEPT !.indentLevel = @ + 1], "enter", ps.indentLevel)
        b == call("parseBlockLoop", p2, <<>>)
    IN [p |-> logBlock([b.p EXCEPT !.indentLevel = @ - 1], "return", ps.indentLevel),
        n |-> BlockStmt(b.n)]

\* func (p *Parser) parseIfExpr() ast.Expr
parseIfExpr(ps) ==
    LET c == call("parseExpr", next(ps), LOWEST)
        e1 == expectPeek(c.p, ":")
        e2 == expectPeek(e1.p, "NEWLINE")
        pass == call("parseBlockStmt", e2.p, Nil)
        ec == expectCurrent(pass.p, "ELSE")
        fail == call("parseBlockStmt", ec.p, Nil)
    IN IF ~e1.ok THEN [p |-> e1.p, n |-> Nil]
       ELSE IF ~e2.ok THEN [p |-> e2.p, n |-> Nil]
       ELSE IF ~ec.ok THEN [p |-> ec.p, n |-> IfExpr(c.n, pass.n, Nil)]
       ELSE [p |-> fail.p, n |-> IfExpr(c.n, pass.n, fail.n)]

\* the loop of parseCallArgs, with args the arguments so far
parseCallArgsLoop(ps, args) ==
    IF checkPeek(ps, ",")
    THEN LET r == call("parseExpr", next(next(ps)), LOWEST)
         IN call("parseCallArgsLoop", logIter(r.p, "parseCallArgs", ps.index),
                 Append(args, r.n))
    ELSE [p |-> ps, n |-> args]

\* func (p *Parser) parseCallArgs() []ast.Expr  (a nil slice is <<>>)
parseCallArgs(ps) ==
    IF checkPeek(ps, ")")
    THEN [p |-> next(ps), n |-> <<>>]
    ELSE LET r == call("parseExpr", next(ps), LOWEST)
             a == call("parseCallArgsLoop", r.p, <<r.n>>)
             e == expectPeek(a.p, ")")
         IN IF ~e.ok THEN [p |-> e.p, n |-> <<>>] ELSE [p |-> e.p, n |-> a.n]

\* func (p *Parser) parseCallExpr(fn ast.Expr) ast.Expr
parseCallExpr(ps, fn) ==
    LET a == parseCallArgs(ps)
    IN [p |-> a.p, n |-> CallExpr(fn, a.n)]

\* func (p *Parser) parseWhileExpr() ast.Expr
parseWhileExpr(ps) ==
    LET c == call("parseExpr", next(ps), LOWEST)
        e1 == expectPeek(c.p, ":")
        e2 == expectPeek(e1.p, "NEWLINE")
        body == call("parseBlockStmt", e2.p, Nil)
    IN IF ~e1.ok THEN [p |-> e1.p, n |-> Nil]
       ELSE IF ~e2.ok THEN [p |-> e2.p, n |-> Nil]
       ELSE [p |-> body.p, n |-> WhileExpr(c.n, body.n)]

call(fn, ps, x) ==
    CASE fn = "parseIdent" -> parseIdent(ps)
      [] fn = "parseIntLiteral" -> parseIntLiteral(ps)
      [] fn = "parseStrLiteral" -> parseStrLiteral(ps)
      [] fn = "parsePrefixExpr" -> parsePrefixExpr(ps)
      [] fn = "parseGroupingExpr" -> parseGroupingExpr(ps)
      [] fn = "parseIfExpr" -> parseIfExpr(ps)
      [] fn = "parseWhileExpr" -> parseWhileExpr(ps)
      [] fn = "parseInfixExpr" -> parseInfixExpr(ps, x)
      [] fn = "parseCallExpr" -> parseCallExpr(ps, x)
      [] fn = "parseStmt" -> parseStmt(ps)
      [] fn = "parseBlockStmt" -> parseBlockStmt(ps)
      [] fn = "parseExpr" -> parseExpr(ps, x)
      [] fn = "parseExprLoop" -> parseExprLoop(ps, x.prec, x.left)
      [] fn = "parseBlockLoop" -> parseBlockLoop(ps, x)
      [] fn = "parseCallArgsLoop" -> parseCallArgsLoop(ps, x)

\* p := Parser{...} of StartParse and StartParseRepl
NewParser(tokens) ==
    [tokens |-> tokens, index |-> 0, statements |-> <<>>, errors |-> <<>>,
     indentLevel |-> 0, trail |-> <<0>>, blocks |-> <<>>, iters |-> <<>>]

\* the loop of parse without `p.next()`
parseIterNoNext(ps) ==
    LET r == call("parseStmt", ps, Nil)
        q == IF r.n.type # "nil"
             THEN [r.p EXCEPT !.statements = Append(@, r.n)]
             ELSE r.p
    IN logIter(q, "parse", ps.index)

\* one iteration of the loop of parse
parseIter(ps) ==
    LET r == call("parseStmt", ps, Nil)
        q == IF r.n.type # "nil"
             THEN [r.p EXCEPT !.statements = Append(@, r.n)]
             ELSE r.p
    IN logIter(next(q), "parse", ps.index)

\* StartLex, run to its return: the tokens, or panicked
RECURSIVE lex(_, _)
lex(lx, ok) ==
    IF ok
    THEN LET lx1 == lexIter(lx)
         IN IF lx1.panicked THEN lx1 ELSE lex(lx1, lx1.index < Len(lx1.input))
    ELSE lx

\* func StartLex(input string) []Token
StartLex(input) ==
    LET lx == lex(NewLexer(input), TRUE)
    IN IF lx.panicked THEN lx ELSE appendEOF(lx)

\* strings.ReplaceAll(input, "    ", "\t")
RECURSIVE ReplaceAll(_)
ReplaceAll(s) ==
    IF Len(s) >= 4 /\ SubSeq(s, 1, 4) = <<" ", " ", " ", " ">>
    THEN <<"\t">> \o ReplaceAll(SubSeq(s, 5, Len(s)))
    ELSE IF s = <<>> THEN <<>>
    ELSE <<Head(s)>> \o ReplaceAll(Tail(s))

----------------------------------------------------------------------------
(* package interpreter: the items and the environment                      *)

\* the items Int, Str, Bool, Error and Builtin; a nil Item is NilItem
IntItem(val) == [type |-> "INT", Val |-> val]

StrItem(val) == [type |-> "STR", Val |-> val]

BoolItem(val) == [type |-> "BOOL", Val |-> val]

ErrorItem(err) == [type |-> "ERR", Err |-> err]

BuiltinItem(name) == [type |-> "BUILTIN", Fn |-> name]

NilItem == [type |-> "nil"]

\* func NewEnv() *Environment: the empty map
NewEnv == <<>>

\* func (e *Environment) Get(k string) (Item, bool)
Get(e, k) == IF k \in DOMAIN e THEN [val |-> e[k], ok |-> TRUE] ELSE [val |-> NilItem, ok |-> FALSE]

\* func (e *Environment) Store(k string, i Item) Item
Store(e, k, i) == [j \in DOMAIN e \cup {k} |-> IF j = k THEN i ELSE e[j]]

----------------------------------------------------------------------------
(* package evaluator.  Evaluate returns the environment it leaves, the     *)
(* item it returns and whether it panicked (a method called on a nil Item, *)
(* a division by zero): [env |-> e, item |-> i, panicked |-> b].           *)

Returns(env, item) == [env |-> env, item |-> item, panicked |-> FALSE]

Panics(env) == [env |-> env, item |-> NilItem, panicked |-> TRUE]

\* ast.Program{Stmts: p.statements}
Program(stmts) == [type |-> "Program", Stmts |-> stmts]

\* the calls of Evaluate, evaluateStmts and evaluateExprs, by name
RECURSIVE evalCall(_, _, _)

\* var builtins
builtins == {<<"p", "r", "i", "n", "t">>}

\* fmt.Sprintf("%d", i.Val)
Sprintd(n) == IF n < 0 THEN <<"-">> \o Itoa(0 - n) ELSE Itoa(n)

\* func (i Item) Visit() string
Visit(item) ==
    CASE item.type = "INT" -> Sprintd(item.Val)
      [] item.type = "STR" -> item.Val
      [] item.type = "BOOL" -> IF item.Val THEN <<"t", "r", "u", "e">> ELSE <<"f", "a", "l", "s", "e">>
      [] item.type = "ERR" -> item.Err
      [] item.type = "BUILTIN" -> <<"builtin function">>

\* func newErr(f string, e ...interface{}) *interpreter.Error: the message
\* is kept as its parts
newErr(parts) == ErrorItem(parts)

\* func evaluateIdent(i *ast.Identifier, env *interpreter.Environment)
evaluateIdent(i, env) ==
    IF Get(env, i.Val).ok THEN Get(env, i.Val).val
    ELSE IF i.Val \in builtins THEN BuiltinItem(i.Val)
    ELSE newErr(<<"identifier not found: ", i.Val>>)

\* func evaluateNegateOpExpr(expr interpreter.Item) interpreter.Item
evaluateNegateOpExpr(expr) ==
    IF expr.type # "INT" THEN NilItem ELSE IntItem(0 - expr.Val)

\* func evaluatePrefixExpr(op string, expr interpreter.Item) interpreter.Item
evaluatePrefixExpr(op, expr) ==
    IF op = <<"-">> THEN evaluateNegateOpExpr(expr)
    ELSE newErr(<<"unknown operator: ", op, expr.type>>)

\* Go's left / right for right # 0: the quotient truncated toward zero
Quo(left, right) ==
    LET a == IF left < 0 THEN 0 - left ELSE left
        b == IF right < 0 THEN 0 - right ELSE right
    IN IF (left < 0) = (right < 0) THEN a \div b ELSE 0 - (a \div b)

\* func evaluateIntInfixExpr(op string, l interpreter.Item, r interpreter.Item);
\* the values of the model stay far below 1<<63
evaluateIntInfixExpr(op, left, right) ==
    CASE op = <<"+">> -> IntItem(left.Val + right.Val)
      [] op = <<"-">> -> IntItem(left.Val - right.Val)
      [] op = <<"*">> -> IntItem(left.Val * right.Val)
      [] op = <<"/">> -> IntItem(Quo(left.Val, right.Val))
      [] op = <<"<">> -> BoolItem(left.Val < right.Val)
      [] op = <<">">> -> BoolItem(left.Val > right.Val)
      [] op = <<"=", "=">> -> BoolItem(left.Val = right.Val)
      [] op = <<"!", "=">> -> BoolItem(left.Val # right.Val)
      [] OTHER -> newErr(<<"unknown operator: ", op>>)

\* func evaluateStrInfixExpr(op string, l interpreter.Item, r interpreter.Item)
evaluateStrInfixExpr(op, left, right) ==
    IF op = <<"+">> THEN StrItem(Visit(left) \o Visit(right))
    ELSE newErr(<<"unknown operator: ", op>>)

\* func evaluateInfixExpr(op string, l interpreter.Item, r interpreter.Item)
evaluateInfixExpr(op, left, right) ==
    IF left.type = "INT" /\ right.type = "INT" THEN evaluateIntInfixExpr(op, left, right)
    ELSE IF left.type \in {"INT", "STR"} /\ right.type \in {"INT", "STR"}
    THEN evaluateStrInfixExpr(op, left, right)
    ELSE newErr(<<"unknown operator: ", left.type, op, right.type>>)

\* func isTrue(item interpreter.Item) bool
isTrue(item) == item = BoolItem(TRUE)

\* func evaluateStmts(stmts []ast.Stmt, env *interpreter.Environment)
evaluateStmts(stmts, env) ==
    IF stmts = <<>> THEN Returns(env, NilItem)
    ELSE LET r == evalCall("Evaluate", Head(stmts), env)
         IN IF r.panicked \/ Len(stmts) = 1 THEN r
            ELSE evalCall("evaluateStmts", Tail(stmts), r.env)

\* func evaluateExprs(e []ast.Expr, env *interpreter.Environment): the item
\* returned is the slice of items
evaluateExprs(e, env) ==
    IF e = <<>> THEN Returns(env, <<>>)
    ELSE LET r == evalCall("Evaluate", Head(e), env)
             rest == evalCall("evaluateExprs", Tail(e), r.env)
         IN IF r.panicked THEN r
            ELSE IF r.item.type = "nil" THEN Panics(r.env)
            ELSE IF r.item.type = "ERR" THEN Returns(r.env, <<r.item>>)
            ELSE IF rest.panicked THEN rest
            ELSE IF Len(rest.item) = 1 /\ rest.item[1].type = "ERR" THEN rest
            ELSE Returns(rest.env, <<r.item>> \o rest.item)

\* func evaluateIfExpr(ie *ast.IfExpr, env *interpreter.Environment)
evaluateIfExpr(ie, env) ==
    LET cond == evalCall("Evaluate", ie.Cond, env)
    IN IF cond.panicked THEN cond
       ELSE IF isTrue(cond.item) THEN evalCall("Evaluate", ie.Pass, cond.env)
       ELSE IF ie.Fail.type # "nil" THEN evalCall("Evaluate", ie.Fail, cond.env)
       ELSE Returns(cond.env, NilItem)

\* func Evaluate(node ast.Node, env *interpreter.Environment) interpreter.Item
Evaluate(node, env) ==
    CASE node.type = "Program" -> evalCall("evaluateStmts", node.Stmts, env)
      [] node.type = "ExprStmt" -> evalCall("Evaluate", node.Expr, env)
      [] node.type = "CallExpr" ->
            LET fn == evalCall("Evaluate", node.Func, env)
                args == evalCall("evaluateExprs", node.Args, fn.env)
            IN IF fn.panicked THEN fn
               ELSE IF fn.item.type = "nil" THEN Panics(fn.env)
               ELSE IF fn.item.type = "ERR" THEN fn
               ELSE IF args.panicked THEN args
               ELSE IF Len(args.item) = 1 /\ args.item[1].type = "ERR"
               THEN Returns(args.env, args.item[1])
               ELSE Returns(args.env, NilItem)
      [] node.type = "VarStmt" ->
            LET v == evalCall("Evaluate", node.Value, env)
            IN IF v.panicked THEN v
               ELSE IF v.item.type = "nil" THEN Panics(v.env)
               ELSE IF v.item.type = "ERR" THEN v
               ELSE Returns(Store(v.env, node.Ident.Val, v.item), v.item)
      [] node.type = "Identifier" -> Returns(env, evaluateIdent(node, env))
      [] node.type = "PrefixExpr" ->
            LET expr == evalCall("Evaluate", node.Expr, env)
            IN IF expr.panicked THEN expr
               ELSE IF expr.item.type = "nil" THEN Panics(expr.env)
               ELSE IF expr.item.type = "ERR" THEN expr
               ELSE Returns(expr.env, evaluatePrefixExpr(node.Op, expr.item))
      [] node.type = "InfixExpr" ->
            LET left == evalCall("Evaluate", node.Left, env)
                right == evalCall("Evaluate", node.Right, left.env)
            IN IF left.panicked THEN left
               ELSE IF left.item.type = "nil" THEN Panics(left.env)
               ELSE IF left.item.type = "ERR" THEN left
               ELSE IF right.panicked THEN right
               ELSE IF right.item.type = "nil" THEN Panics(right.env)
               ELSE IF right.item.type = "ERR" THEN right
               ELSE IF node.Op = <<"/">> /\ left.item.type = "INT"
                        /\ right.item.type = "INT" /\ right.item.Val = 0
               THEN Panics(right.env)
               ELSE Returns(right.env, evaluateInfixExpr(node.Op, left.item, right.item))
      [] node.type = "BlockStmt" -> evalCall("evaluateStmts", node.Stmts, env)
      [] node.type = "IfExpr" -> evaluateIfExpr(node, env)
      [] node.type = "IntLiteral" -> Returns(env, IntItem(node.Value))
      [] node.type = "StrLiteral" -> Returns(env, StrItem(node.Value))
      [] OTHER -> Returns(env, NilItem)

evalCall(fn, x, env) ==
    CASE fn = "Evaluate" -> Evaluate(x, env)
      [] fn = "evaluateStmts" -> evaluateStmts(x, env)
      [] fn = "evaluateExprs" -> evaluateExprs(x, env)

----------------------------------------------------------------------------
(* package ast: String() panics when it calls String() on a nil Expr       *)

RECURSIVE StringPanics(_)
StringPanics(node) ==
    CASE node.type \in {"Program", "BlockStmt"} ->
            \E i \in 1..Len(node.Stmts) : StringPanics(node.Stmts[i])
      [] node.type = "VarStmt" -> node.Value.type # "nil" /\ StringPanics(node.Value)
      [] node.type = "ExprStmt" -> node.Expr.type # "nil" /\ StringPanics(node.Expr)
      [] node.type = "PrefixExpr" -> node.Expr.type = "nil" \/ StringPanics(node.Expr)
      [] node.type = "InfixExpr" ->
            \/ node.Left.type = "nil" \/ node.Right.type = "nil"
            \/ StringPanics(node.Left) \/ StringPanics(node.Right)
      [] node.type = "IfExpr" ->
            \/ node.Cond.type = "nil" \/ StringPanics(node.Cond) \/ StringPanics(node.Pass)
            \/ (node.Fail.type # "nil" /\ StringPanics(node.Fail))
      [] node.type = "CallExpr" ->
            \/ \E i \in 1..Len(node.Args) :
                    node.Args[i].type = "nil" \/ StringPanics(node.Args[i])
            \/ node.Func.type = "nil" \/ StringPanics(node.Func)
      [] node.type = "WhileExpr" -> node.Cond.type = "nil" \/ StringPanics(node.Cond)
      [] OTHER -> FALSE

----------------------------------------------------------------------------
(* repl.Run: one line                                                      *)

\* func parse(p *Parser) []ast.Stmt
RECURSIVE parse(_)
parse(ps) == IF end(ps) THEN ps ELSE parse(parseIter(ps))

\* func StartParseRepl(input string) (*Parser, ast.Program)
StartParseRepl(input) ==
    LET lx == StartLex(ReplaceAll(input))
    IN IF lx.panicked
       THEN [l |-> lx, p |-> NewParser(<<>>), panicked |-> TRUE]
       ELSE [l |-> lx, p |-> parse(NewParser(lx.tokens)), panicked |-> FALSE]

\* what one turn of the loop of Run leaves: the lexer and parser of the line,
\* the environment, and whether the turn panicked
lineResult(sp, env, panicked) ==
    [l |-> sp.l, p |-> sp.p, env |-> env, panicked |-> panicked]

\* evaluator.Evaluate(program, environment) has returned
evaluated(sp, eval) == lineResult(sp, eval.env, eval.panicked)

\* io.WriteString(w, program.String()); evaluator.Evaluate(program, environment)
printAndEvaluate(env, sp, program) ==
    IF StringPanics(program) THEN lineResult(sp, env, TRUE)
    ELSE evaluated(sp, Evaluate(program, env))

\* the loop of Run after StartParseRepl, without
\* `if len(p.Errors()) != 0 { ...; continue }`
runLineNoContinue(env, sp) ==
    IF sp.panicked THEN lineResult(sp, env, TRUE)
    ELSE printAndEvaluate(env, sp, Program(sp.p.statements))

\* the loop of Run after StartParseRepl
runLine(env, sp) ==
    IF sp.panicked THEN lineResult(sp, env, TRUE)
    ELSE IF sp.p.errors # <<>> THEN lineResult(sp, env, FALSE)
    ELSE printAndEvaluate(env, sp, Program(sp.p.statements))

\* the body of the loop of Run, for a line the scanner has read
replLine(env, line) == runLine(env, StartParseRepl(line))

----------------------------------------------------------------------------
(* Inputs of the tokenizer                                                 *)

\* every source of at most MaxLen characters of Alphabet
MaxLen == 3

Alphabet == {"i", "f", "1", "=", "!", "\"", "\n", "\t", " ", "#", "$", "+"}

RECURSIVE StringsUpTo(_, _)
StringsUpTo(chars, n) ==
    IF n = 0 THEN {<<>>}
    ELSE LET shorter == StringsUpTo(chars, n - 1)
         IN shorter \cup {Append(s, c) : s \in {t \in shorter : Len(t) = n - 1}, c \in chars}

\* words that start with or are a keyword
WordSources ==
    {<<"i", "f">>, <<"i", "f", "f", "y">>, <<"i", "n">>, <<"i", "n", "x">>,
     <<"o", "r">>, <<"o", "r", "d", "e", "r">>, <<"f", "o", "r">>,
     <<"f", "o", "r", "m", "1">>, <<"i", "n", "t">>, <<"s", "t", "r">>,
     <<"a", "n", "d">>, <<"e", "l", "s", "e">>, <<"e", "l", "i", "f">>,
     <<"w", "h", "i", "l", "e">>, <<"p", "r", "i", "n", "t">>,
     <<"x", "1", " ", "_", "y", " ", "i", "f">>, <<"i", "f", "_">>,
     <<"i", "f", " ", "f", "y">>}

\* the ten two-character operators
CompoundOps ==
    {<<"=", "=">>, <<"!", "=">>, <<"<", "=">>, <<">", "=">>, <<"+", "=">>,
     <<"-", "=">>, <<"*", "=">>, <<"/", "=">>, <<"%", "=">>, <<"^", "=">>}

OpBefore == {<<>>, <<"a">>, <<"a", " ">>}

OpAfter == {<<>>, <<"b">>, <<" ", "b">>}

OpSources == {pre \o op \o post : pre \in OpBefore, op \in CompoundOps, post \in OpAfter}

\* sources with the index (from 1) of the first character of each of their
\* tokens other than INDENT and EOF: "x = 1", a tab before a word, a token
\* after a number of two digits, after a string literal, on the second line,
\* and an unrecognized character
PosCases ==
    {[src |-> <<"x", " ", "=", " ", "1">>, starts |-> <<1, 3, 5>>],
     [src |-> <<"\t", "x">>, starts |-> <<2>>],
     [src |-> <<"1", "1", " ", "=">>, starts |-> <<1, 4>>],
     [src |-> <<"\"", "s", "\"", " ", "x">>, starts |-> <<1, 5>>],
     [src |-> <<"x", "\n", "y">>, starts |-> <<1, 2, 3>>],
     [src |-> <<"$">>, starts |-> <<1>>]}

PosSources == {c.src : c \in PosCases}

\* an opening double quote and no closing one, with 1 to 3 characters after it
OpenQuoteSources ==
    {<<"a", " ", "\"", "b">>, <<"\"", "b", "c">>, <<"a", " ", "\"", "b", "c", "d">>}

\* lines that end with a `#` comment, a line that is only a comment, a
\* comment on the last line
CommentSources ==
    {<<"x", " ", "#", "c", "\n", "y">>, <<"#", "c", "\n", "\n", "x">>,
     <<"x", "\n", "#", "c">>, <<"x", " ", "=", " ", "1", " ", "#", " ", "i", "f", "\n", "y", "\n">>}

Sources ==
    StringsUpTo(Alphabet, MaxLen) \cup WordSources \cup OpSources \cup PosSources
        \cup OpenQuoteSources \cup CommentSources

----------------------------------------------------------------------------
(* The tokenizer: StartLex(input), one iteration of the loop at a time     *)

NoParser == NewParser(<<>>)

Init ==
    /\ l \in {NewLexer(s) : s \in Sources}
    /\ p = NoParser
    /\ pc = "lexEnter"
    /\ returned = <<>>
    /\ environment = NewEnv

\* an iteration of `for ok := true; ok; ok = l.index < len(l.input)`
Lex ==
    /\ pc = "lexEnter" \/ (pc = "lexLoop" /\ l.index < Len(l.input))
    /\ l' = lexIter(l)
    /\ pc' = IF l'.panicked THEN "panic" ELSE "lexLoop"
    /\ UNCHANGED <<p, returned, environment>>

\* the loop of lex ends, StartLex appends the EOF token and returns the
\* tokens; returned records what each call of StartLex returned, in order
LexReturn ==
    /\ pc = "lexLoop" /\ ~(l.index < Len(l.input))
    /\ l' = appendEOF(l)
    /\ pc' = "lexed"
    /\ returned' = Append(returned, [input |-> l.input, tokens |-> l'.tokens])
    /\ UNCHANGED <<p, environment>>

Next == Lex \/ LexReturn

Spec == Init /\ [][Next]_vars

----------------------------------------------------------------------------
(* Calls of StartLex one after the other, as the loop of repl.Run and the   *)
(* tests make them                                                         *)

MaxCalls == 3

\* the sources of the calls: a word, a newline, two lines, a number and a
\* word, a string literal
RepeatSources ==
    {<<"i">>, <<"\n">>, <<"x", "\n", "y">>, <<"1", " ", "i">>, <<"\"", "s", "\"">>}

\* before the first call there is no Lexer
NoLexer ==
    [index |-> 0, input |-> <<>>, line |-> 1, column |-> 0, current |-> " ",
     currentType |-> 0, tokens |-> <<>>, panicked |-> FALSE]

InitCalls ==
    /\ l = NoLexer
    /\ p = NoParser
    /\ pc = "idle"
    /\ returned = <<>>
    /\ environment = NewEnv

\* a call StartLex(s): a new Lexer is made for it
Enter ==
    /\ pc \in {"idle", "lexed"}
    /\ Len(returned) < MaxCalls
    /\ \E s \in RepeatSources : l' = NewLexer(s)
    /\ pc' = "lexEnter"
    /\ UNCHANGED <<p, returned, environment>>

NextCalls == Enter \/ Lex \/ LexReturn

SpecCalls == InitCalls /\ [][NextCalls]_vars

\* the kinds of the tokens, in order
Kinds(tokens) == [i \in 1..Len(tokens) |-> tokens[i].Name]

----------------------------------------------------------------------------
(* C1 *)

\* C1: for every source string, the empty one and those ending in a double
\* quote included, StartLex does not abort (no read outside the input) and
\* returns a non-empty token sequence.
C1_LexNeverAborts ==
    /\ ~l.panicked
    /\ pc = "lexed" => l.tokens # <<>>

----------------------------------------------------------------------------
(* C2 *)

\* C2: every token sequence StartLex returns ends with exactly one EOF token:
\* the last token is EOF and no earlier one is.
C2_EndsWithOneEOF ==
    pc = "lexed" =>
        /\ l.tokens # <<>>
        /\ l.tokens[Len(l.tokens)].Name = "EOF"
        /\ \A i \in 1..(Len(l.tokens) - 1) : l.tokens[i].Name # "EOF"

\* StartLex has returned tokens of several kinds ahead of the EOF token
C2_Witness ==
    /\ pc = "lexed"
    /\ Len(l.tokens) >= 3
    /\ \E i \in 1..Len(l.tokens) : l.tokens[i].Name = "ILLEGAL"

----------------------------------------------------------------------------
(* C3 *)

IsWordChar(c) == IsLetter(c) \/ IsDigit(c) \/ c = "_"

\* the maximal runs of non-blank characters of s, in order
RECURSIVE Runs(_, _, _)
Runs(s, run, acc) ==
    IF s = <<>> THEN (IF run = <<>> THEN acc ELSE Append(acc, run))
    ELSE IF Head(s) = " "
    THEN Runs(Tail(s), <<>>, IF run = <<>> THEN acc ELSE Append(acc, run))
    ELSE Runs(Tail(s), Append(run, Head(s)), acc)

\* s is words separated by blanks: every run is letters, digits and
\* underscores and starts with a letter or an underscore
OnlyWords(s) ==
    /\ \A i \in 1..Len(s) : IsWordChar(s[i]) \/ s[i] = " "
    /\ \A i \in 1..Len(s) : IsDigit(s[i]) => i > 1 /\ s[i - 1] # " "

WordKind(w) == IF w \in reserved THEN keywordName(w) ELSE "IDENT"

\* C3: every word of the source is exactly one token whose text is the whole
\* word, of the keyword kind if the word is a keyword and IDENT otherwise
\* ("iffy" is one IDENT token, never a token of kind IF).
C3_WordsAreTokens ==
    (pc = "lexed" /\ OnlyWords(l.input)) =>
        LET words == Runs(l.input, <<>>, <<>>)
        IN /\ Len(l.tokens) = Len(words) + 1
           /\ \A i \in 1..Len(words) :
                /\ l.tokens[i].Val = words[i]
                /\ l.tokens[i].Name = WordKind(words[i])

----------------------------------------------------------------------------
(* C10 *)

\* the token kind of a two-character operator ("==" for '=' '=')
OpKind(op) ==
    CASE op = <<"=", "=">> -> "==" [] op = <<"!", "=">> -> "!=" [] op = <<"<", "=">> -> "<="
      [] op = <<">", "=">> -> ">=" [] op = <<"+", "=">> -> "+=" [] op = <<"-", "=">> -> "-="
      [] op = <<"*", "=">> -> "*=" [] op = <<"/", "=">> -> "/=" [] op = <<"%", "=">> -> "%="
      [] op = <<"^", "=">> -> "^="

\* C10: each two-character operator is one token of the compound kind and
\* its second character makes no further token: between an identifier and
\* an identifier, at the start and at the end of the source.
C10_CompoundIsOneToken ==
    pc = "lexed" =>
        \A pre \in OpBefore, op \in CompoundOps, post \in OpAfter :
            l.input = pre \o op \o post =>
                Kinds(l.tokens) = (IF pre = <<>> THEN <<>> ELSE <<"IDENT">>)
                                   \o <<OpKind(op)>>
                                   \o (IF post = <<>> THEN <<>> ELSE <<"IDENT">>)
                                   \o <<"EOF">>

----------------------------------------------------------------------------
(* C11, C12 *)

\* the line of the character at index i (from 1) of s: 1 plus the newlines
\* before it
LineOf(s, i) == 1 + Cardinality({j \in 1..(i - 1) : s[j] = "\n"})

\* the column of the character at index i of s: the widths of the characters
\* before it on its line, 4 for a tab and 1 for any other
RECURSIVE ColOf(_, _)
ColOf(s, i) ==
    IF i = 1 \/ s[i - 1] = "\n" THEN 0
    ELSE ColOf(s, i - 1) + (IF s[i - 1] = "\t" THEN 4 ELSE 1)

\* the tokens other than INDENT and EOF, in order
RECURSIVE Positioned(_)
Positioned(tokens) ==
    IF tokens = <<>> THEN <<>>
    ELSE IF Head(tokens).Name \in {"INDENT", "EOF"} THEN Positioned(Tail(tokens))
    ELSE <<Head(tokens)>> \o Positioned(Tail(tokens))

\* s holds exactly one double quote, at index q, and no comment
OpenQuoteAt(s, q) ==
    /\ q \in 1..Len(s) /\ s[q] = "\""
    /\ \A j \in 1..Len(s) : (s[j] = "\"" => j = q) /\ s[j] # "#"

\* C11: a source with an opening double quote and no closing one lexes to an
\* ILLEGAL token at the line and column of the quote and to no STRING token,
\* however many characters follow the quote.
C11_UnterminatedIsIllegal ==
    pc = "lexed" =>
        \A q \in 1..Len(l.input) :
            OpenQuoteAt(l.input, q) =>
                /\ \A i \in 1..Len(l.tokens) : l.tokens[i].Name # "STRING"
                /\ \E i \in 1..Len(l.tokens) :
                        /\ l.tokens[i].Name = "ILLEGAL"
                        /\ l.tokens[i].row = LineOf(l.input, q)
                        /\ l.tokens[i].col = ColOf(l.input, q)

\* C12: every token other than INDENT and EOF carries the line and the
\* column of its first character: also after a number of several digits,
\* after a string literal, on a line after the first, and for ILLEGAL.
C12_TokenPositions ==
    pc = "lexed" =>
        \A c \in PosCases :
            l.input = c.src =>
                LET toks == Positioned(l.tokens)
                IN /\ Len(toks) = Len(c.starts)
                   /\ \A k \in 1..Len(toks) :
                        /\ toks[k].row = LineOf(c.src, c.starts[k])
                        /\ toks[k].col = ColOf(c.src, c.starts[k])

----------------------------------------------------------------------------
(* C14 *)

\* C14: two calls of StartLex on the same source, in any order and with any
\* other calls between them, return the same tokens (kind, text, line and
\* column of every token).
C14_SameSourceSameTokens ==
    \A i \in 1..Len(returned), j \in 1..Len(returned) :
        returned[i].input = returned[j].input => returned[i].tokens = returned[j].tokens

\* a source has been lexed, then another one of two lines, then the first again
C14_Witness ==
    /\ Len(returned) = 3
    /\ returned[1].input = returned[3].input
    /\ returned[2].input = <<"x", "\n", "y">>
    /\ returned[1].input # returned[2].input
    /\ Len(returned[3].tokens) >= 2

----------------------------------------------------------------------------
(* Inputs of the parser                                                    *)

\* the operators the precedence table binds, as written in the source
BinaryOps ==
    {<<"=", "=">>, <<"!", "=">>, <<"<">>, <<"<", "=">>, <<">">>, <<">", "=">>,
     <<"a", "n", "d">>, <<"+">>, <<"+", "=">>, <<"-">>, <<"-", "=">>,
     <<"*">>, <<"*", "=">>, <<"/">>, <<"/", "=">>}

\* the token kind of an operator of BinaryOps
OpToken(op) ==
    CASE op = <<"=", "=">> -> "==" [] op = <<"!", "=">> -> "!=" [] op = <<"<">> -> "<"
      [] op = <<"<", "=">> -> "<=" [] op = <<">">> -> ">" [] op = <<">", "=">> -> ">="
      [] op = <<"a", "n", "d">> -> "AND" [] op = <<"+">> -> "+" [] op = <<"+", "=">> -> "+="
      [] op = <<"-">> -> "-" [] op = <<"-", "=">> -> "-=" [] op = <<"*">> -> "*"
      [] op = <<"*", "=">> -> "*=" [] op = <<"/">> -> "/" [] op = <<"/", "=">> -> "/="

\* "x op1 y op2 z"
ExprSource(op1, op2) ==
    <<"x", " ">> \o op1 \o <<" ", "y", " ">> \o op2 \o <<" ", "z">>

ExprSources == {ExprSource(op1, op2) : op1 \in BinaryOps, op2 \in BinaryOps}

\* "a = 1 + 2 * 3"
BindingSource == <<"a", " ", "=", " ", "1", " ", "+", " ", "2", " ", "*", " ", "3">>

\* "if x < 1:\n\ty = 2\n", then nothing, a shallower or a deeper statement
IfSource ==
    <<"i", "f", " ", "x", " ", "<", " ", "1", ":", "\n", "\t", "y", " ", "=", " ", "2", "\n">>

IfFollowers == {<<>>, <<"z", " ", "=", " ", "3", "\n">>, <<"\t", "\t", "z", " ", "=", " ", "3", "\n">>}

IfSources == {IfSource \o f : f \in IfFollowers}

\* "if y > 1:\n\tz = 1\n", with a tab and with four blanks, and with an else
BlockSource == <<"i", "f", " ", "y", " ", ">", " ", "1", ":", "\n", "\t", "z", " ", "=", " ", "1", "\n">>

BlockSources ==
    {BlockSource,
     <<"i", "f", " ", "y", ":", "\n", " ", " ", " ", " ", "z", " ", "=", " ", "1", "\n">>,
     BlockSource \o <<"e", "l", "s", "e", "\n", "\t", "w", " ", "=", " ", "2", "\n">>,
     <<"w", "h", "i", "l", "e", " ", "y", ":", "\n", "\t", "i", "f", " ", "x", ":", "\n",
       "\t", "\t", "z", " ", "=", " ", "1", "\n", "\t", "v", "\n", "u", "\n">>}

\* the argument expressions of a call, with the node each one is
ArgExprs ==
    {[src |-> <<"1">>, node |-> IntLiteral(1)],
     [src |-> <<"x">>, node |-> Identifier(<<"x">>)],
     [src |-> <<"-", "x">>, node |-> PrefixExpr(<<"-">>, Identifier(<<"x">>))],
     [src |-> <<"g", "(", ")">>, node |-> CallExpr(Identifier(<<"g">>), <<>>)],
     [src |-> <<"1", " ", "+", " ", "2">>,
      node |-> InfixExpr(IntLiteral(1), <<"+">>, IntLiteral(2))],
     [src |-> <<"x", " ", "<", " ", "1">>,
      node |-> InfixExpr(Identifier(<<"x">>), <<"<">>, IntLiteral(1))],
     [src |-> <<"(", "y", ")">>, node |-> Identifier(<<"y">>)],
     [src |-> <<"\"", "s", "\"">>, node |-> StrLiteral(<<"s">>)]}

MaxArgs == 2

RECURSIVE ArgLists(_)
ArgLists(n) ==
    IF n = 0 THEN {<<>>}
    ELSE LET shorter == ArgLists(n - 1)
         IN shorter \cup {Append(s, a) : s \in {t \in shorter : Len(t) = n - 1}, a \in ArgExprs}

\* the arguments, separated by ", "
RECURSIVE JoinArgs(_)
JoinArgs(args) ==
    IF args = <<>> THEN <<>>
    ELSE IF Len(args) = 1 THEN args[1].src
    ELSE args[1].src \o <<",", " ">> \o JoinArgs(Tail(args))

\* "f(e1, ..., en)"
CallSource(args) == <<"f", "(">> \o JoinArgs(args) \o <<")">>

CallSources == {CallSource(args) : args \in ArgLists(MaxArgs)}

\* a construct without its colon, between well-formed statements
Befores ==
    {[src |-> <<>>, stmts |-> <<>>],
     [src |-> <<"a", " ", "=", " ", "1", "\n">>,
      stmts |-> <<VarStmt(Identifier(<<"a">>), IntLiteral(1))>>],
     [src |-> <<"i", "f", " ", "y", ":", "\n", "\t", "z", " ", "=", " ", "1", "\n">>,
      stmts |-> <<ExprStmt(IfExpr(Identifier(<<"y">>),
                                  BlockStmt(<<VarStmt(Identifier(<<"z">>), IntLiteral(1))>>),
                                  Nil))>>]}

NoColons == {<<"i", "f", " ", "x">>, <<"w", "h", "i", "l", "e", " ", "x">>,
             <<"i", "f", " ", "x", " ", "+", " ", "1">>}

Afters ==
    {[src |-> <<>>, stmts |-> <<>>],
     [src |-> <<"\n">>, stmts |-> <<>>],
     [src |-> <<"\n", "b", " ", "=", " ", "2", "\n">>,
      stmts |-> <<VarStmt(Identifier(<<"b">>), IntLiteral(2))>>],
     [src |-> <<"\n", "g", "(", ")", "\n">>,
      stmts |-> <<ExprStmt(CallExpr(Identifier(<<"g">>), <<>>))>>]}

NoColonSources == {b.src \o c \o a.src : b \in Befores, c \in NoColons, a \in Afters}

\* every string of one to MaxDigits digits
MaxDigits == 3

DigitSources == StringsUpTo(Digits, MaxDigits) \ {<<>>}

\* "x op y"
PairSource(op) == <<"x", " ">> \o op \o <<" ", "y">>

\* "x(y)"
ApplySource == <<"x", "(", "y", ")">>

PairSources == {PairSource(op) : op \in BinaryOps} \cup {ApplySource}

\* "-a op b"
NegSource(op) == <<"-", "a", " ">> \o op \o <<" ", "b">>

\* "-f(x)" and "f(x) + 1"
NegCallSource == <<"-", "f", "(", "x", ")">>

CallSumSource == <<"f", "(", "x", ")", " ", "+", " ", "1">>

PrefixSources == {NegSource(op) : op \in BinaryOps} \cup {NegCallSource, CallSumSource}

\* malformed blocks: a block cut off by the end of the source, an empty
\* block, an else with no block, a deeper line with nothing to open it, a
\* block whose condition or colon is missing inside a block, a missing colon
\* followed by a block inside a block that holds no expression
MalformedBlockSources ==
    {<<"i", "f", " ", "y", ":", "\n">>,
     <<"i", "f", " ", "y", ":", "\n", "z", "\n">>,
     <<"i", "f", " ", "y", ":", "\n", "\t", "z", "\n", "e", "l", "s", "e">>,
     <<"i", "f", " ", "y", ":", "\n", "\t", "z", "\n", "e", "l", "s", "e", "\n", "\t", "w", "\n">>,
     <<"\t", "\t", "z", " ", "=", " ", "1", "\n", "y", "\n">>,
     <<"w", "h", "i", "l", "e", " ", "y", ":", "\n", "\t", "i", "f", ":", "\n",
       "\t", "\t", "z", "\n", "\t", "w", "h", "i", "l", "e", " ", "x", "\n", "v", "\n">>,
     <<"i", "f", " ", "y", ":", "\n", "\t", "i", "f", " ", "x", ":", "\n", "z", "\n">>,
     <<"w", "h", "i", "l", "e", " ", "y", "\n", "i", "f", " ", "x", ":", "\n",
       "\t", "i", "f", " ", "z", ":", "\n", "\t", "\t", ")", "\n", "v", "\n">>}

\* "if y:\n\tz = f(1, 2) + 3\n\n\tw\nu\n": every loop of the parser runs
LoopsSource ==
    <<"i", "f", " ", "y", ":", "\n", "\t", "z", " ", "=", " ", "f", "(", "1", ",", " ", "2", ")",
      " ", "+", " ", "3", "\n", "\n", "\t", "w", "\n", "u", "\n">>

\* a block and the statement after it at the shallower level, with the
\* statements they are: "if x:\n\ty = 2\nz = 3\n", the same with while, and
\* "while x:\n\tif w:\n\t\tv = 1\n\ty = 2\n"
AfterBlockCases ==
    {[src |-> <<"i", "f", " ", "x", ":", "\n", "\t", "y", " ", "=", " ", "2", "\n",
               "z", " ", "=", " ", "3", "\n">>,
      stmts |-> <<ExprStmt(IfExpr(Identifier(<<"x">>),
                                  BlockStmt(<<VarStmt(Identifier(<<"y">>), IntLiteral(2))>>),
                                  Nil)),
                  VarStmt(Identifier(<<"z">>), IntLiteral(3))>>],
     [src |-> <<"w", "h", "i", "l", "e", " ", "x", ":", "\n", "\t", "y", " ", "=", " ", "2", "\n",
               "z", " ", "=", " ", "3", "\n">>,
      stmts |-> <<ExprStmt(WhileExpr(Identifier(<<"x">>),
                                     BlockStmt(<<VarStmt(Identifier(<<"y">>), IntLiteral(2))>>))),
                  VarStmt(Identifier(<<"z">>), IntLiteral(3))>>],
     [src |-> <<"w", "h", "i", "l", "e", " ", "x", ":", "\n", "\t", "i", "f", " ", "w", ":", "\n",
               "\t", "\t", "v", " ", "=", " ", "1", "\n", "\t", "y", " ", "=", " ", "2", "\n">>,
      stmts |-> <<ExprStmt(WhileExpr(Identifier(<<"x">>),
                    BlockStmt(<<ExprStmt(IfExpr(Identifier(<<"w">>),
                                    BlockStmt(<<VarStmt(Identifier(<<"v">>), IntLiteral(1))>>),
                                    Nil)),
                                VarStmt(Identifier(<<"y">>), IntLiteral(2))>>)))>>]}

AfterBlockSources == {c.src : c \in AfterBlockCases}

ParseSources ==
    ExprSources \cup {BindingSource} \cup IfSources \cup BlockSources \cup CallSources
        \cup NoColonSources \cup DigitSources \cup PairSources \cup PrefixSources
        \cup MalformedBlockSources \cup {LoopsSource} \cup AfterBlockSources

\* every sequence of at most MaxTokens tokens of TokenKinds, then EOF, with
\* all the tokens in one column
MaxTokens == 3

TokenKinds == {"IDENT", "NUM", "=", "IF", ":", "NEWLINE", "INDENT", "(", ")", ",", "+", "ELSE"}

Columns == {0, 8}

KindText(k) == IF k = "IDENT" THEN <<"x">> ELSE IF k = "NUM" THEN <<"1">> ELSE <<k>>

TokenInputs ==
    {[i \in 1..(Len(ks) + 1) |->
        IF i <= Len(ks) THEN Token(ks[i], KindText(ks[i]), 1, c) ELSE Token("EOF", <<>>, 2, 0)] :
     ks \in StringsUpTo(TokenKinds, MaxTokens), c \in Columns}

----------------------------------------------------------------------------
(* The parser: parse(p), one iteration of the loop at a time, over the     *)
(* tokens of a source as StartParseRepl makes them, or over given tokens   *)

InitParse ==
    /\ \/ \E s \in ParseSources :
            /\ l = StartLex(ReplaceAll(s))
            /\ ~l.panicked
       \/ l = NewLexer(<<>>)
    /\ \/ l.tokens # <<>> /\ p = NewParser(l.tokens)
       \/ l.tokens = <<>> /\ p \in {NewParser(ts) : ts \in TokenInputs}
    /\ pc = "parse"
    /\ returned = <<>>
    /\ environment = NewEnv

\* an iteration of the loop of parse
Parse ==
    /\ pc = "parse" /\ ~end(p)
    /\ p' = parseIter(p)
    /\ UNCHANGED <<l, pc, returned, environment>>

\* the loop of parse ends
ParseReturn ==
    /\ pc = "parse" /\ end(p)
    /\ pc' = "done"
    /\ UNCHANGED <<l, p, returned, environment>>

NextParse == Parse \/ ParseReturn

SpecParse == InitParse /\ [][NextParse]_vars

\* Parse can take a step: an iteration lengthens p.iters, so it never stutters
ParseEnabled == pc = "parse" /\ ~end(p)

\* parse runs on, nothing but its own loop decides when it stops: weak
\* fairness of ParseReturn and of Parse, the latter with ENABLED <<Parse>>_vars
\* written out as ParseEnabled
SpecParseLive ==
    /\ SpecParse
    /\ WF_vars(ParseReturn)
    /\ ([]<>(~ParseEnabled) \/ []<><<Parse>>_vars)

\* the statements that are no expression statement of a nil expression
RECURSIVE NonNil(_)
NonNil(stmts) ==
    IF stmts = <<>> THEN <<>>
    ELSE IF Head(stmts) = ExprStmt(Nil) THEN NonNil(Tail(stmts))
    ELSE <<Head(stmts)>> \o NonNil(Tail(stmts))

----------------------------------------------------------------------------
(* C4 *)

\* C4: of two binary operators of different precedence the higher binds
\* tighter in either order: "x lo y hi z" is (x lo (y hi z)), "x hi y lo z"
\* is ((x hi y) lo z), and "a = 1 + 2 * 3" binds a to (1 + (2 * 3)).
C4_HigherBindsTighter ==
    pc = "done" =>
        /\ \A lo \in BinaryOps, hi \in BinaryOps :
            precedence[OpToken(lo)] < precedence[OpToken(hi)] =>
                /\ l.input = ExprSource(lo, hi) =>
                    p.statements = <<ExprStmt(InfixExpr(Identifier(<<"x">>), lo,
                                        InfixExpr(Identifier(<<"y">>), hi, Identifier(<<"z">>))))>>
                /\ l.input = ExprSource(hi, lo) =>
                    p.statements = <<ExprStmt(InfixExpr(
                                        InfixExpr(Identifier(<<"x">>), hi, Identifier(<<"y">>)),
                                        lo, Identifier(<<"z">>)))>>
        /\ l.input = BindingSource =>
            p.statements = <<VarStmt(Identifier(<<"a">>),
                                     InfixExpr(IntLiteral(1), <<"+">>,
                                               InfixExpr(IntLiteral(2), <<"*">>, IntLiteral(3))))>>

----------------------------------------------------------------------------
(* C5 *)

\* C5: "if x < 1:\n\ty = 2\n" is a conditional whose condition is (x < 1) and
\* whose then-block is the one statement y = 2, with no diagnostics; a
\* following shallower or deeper statement is not in the block.
C5_IfBlockOneStatement ==
    (pc = "done" /\ l.input \in IfSources) =>
        /\ p.errors = <<>>
        /\ p.statements # <<>>
        /\ p.statements[1] =
            ExprStmt(IfExpr(InfixExpr(Identifier(<<"x">>), <<"<">>, IntLiteral(1)),
                            BlockStmt(<<VarStmt(Identifier(<<"y">>), IntLiteral(2))>>),
                            Nil))

----------------------------------------------------------------------------
(* C6 *)

\* C6: "f(e1, ..., en)", n >= 0, is a call of f whose argument list is the n
\* arguments in source order (empty for "f()"), with no diagnostic.
C6_CallArguments ==
    pc = "done" =>
        \A args \in ArgLists(MaxArgs) :
            l.input = CallSource(args) =>
                /\ p.errors = <<>>
                /\ p.statements =
                    <<ExprStmt(CallExpr(Identifier(<<"f">>),
                                        [i \in 1..Len(args) |-> args[i].node]))>>

----------------------------------------------------------------------------
(* C7 *)

\* C7: an if or a while whose condition is not followed by a colon does not
\* abort the parse, appends exactly one diagnostic, has no node, and the
\* well-formed statements before and after it are all returned.
C7_MissingColon ==
    pc = "done" =>
        \A b \in Befores, c \in NoColons, a \in Afters :
            l.input = b.src \o c \o a.src =>
                /\ Len(p.errors) = 1
                /\ NonNil(p.statements) = b.stmts \o a.stmts

----------------------------------------------------------------------------
(* C8 *)

IsDigitString(s) == s # <<>> /\ \A i \in 1..Len(s) : IsDigit(s[i])

\* the decimal value of a digit string
DecimalValue(s) == Horner(s, 10, 0)

\* C8 as claimed: every digit string N, leading zeros included, parses to an
\* IntLiteral of the decimal value of N whose String() is N.
C8_EveryLiteralRoundTrips ==
    (pc = "done" /\ IsDigitString(l.input)) =>
        /\ p.statements = <<ExprStmt(IntLiteral(DecimalValue(l.input)))>>
        /\ IntLiteralString(p.statements[1].Expr) = l.input

\* N is "0" or starts with a digit other than 0
NoLeadingZero(s) == IsDigitString(s) /\ (Len(s) = 1 \/ s[1] # "0")

\* C8, amended: a digit string N without a leading zero parses to an
\* IntLiteral of the decimal value of N whose String() is N.
C8_LiteralRoundTrips ==
    (pc = "done" /\ NoLeadingZero(l.input)) =>
        /\ p.errors = <<>>
        /\ p.statements = <<ExprStmt(IntLiteral(DecimalValue(l.input)))>>
        /\ IntLiteralString(p.statements[1].Expr) = l.input

\* a literal of several digits has been parsed
C8_Witness ==
    /\ pc = "done"
    /\ NoLeadingZero(l.input)
    /\ Len(l.input) >= 2
    /\ p.statements # <<>>

----------------------------------------------------------------------------
(* C9 *)

\* C9: over tokens that end with EOF the parse never aborts: every value i
\* the cursor takes satisfies 0 <= i < len(tokens), the cursor is never
\* advanced from an EOF token, and the token peek reads (at i + 1, when the
\* token at i is not EOF) lies within the tokens.
C9_CursorInBounds ==
    /\ p.trail[Len(p.trail)] = p.index
    /\ \A k \in 1..Len(p.trail) :
        LET i == p.trail[k]
        IN /\ 0 <= i /\ i < Len(p.tokens)
           /\ p.tokens[i + 1].Name # "EOF" => i + 1 < Len(p.tokens)
           /\ k > 1 => p.tokens[p.trail[k - 1] + 1].Name # "EOF"

\* a parse that recorded a diagnostic has run to the EOF token
C9_Witness ==
    /\ pc = "done"
    /\ p.errors # <<>>
    /\ Len(p.tokens) >= 4
    /\ p.index = Len(p.tokens) - 1

----------------------------------------------------------------------------
(* C13 *)

\* C13: each kind that can continue an expression has an infix handler and a
\* precedence above LOWEST, so that "x op y" is one InfixExpr of op, x and y
\* for each binary operator op, and "x(y)" is a call.
C13_ContinuationsHaveInfix ==
    pc = "done" =>
        /\ \A op \in BinaryOps :
            l.input = PairSource(op) =>
                /\ infixParseFns(OpToken(op)) # "nil"
                /\ precedence[OpToken(op)] > LOWEST
                /\ p.statements = <<ExprStmt(InfixExpr(Identifier(<<"x">>), op,
                                                       Identifier(<<"y">>)))>>
        /\ l.input = ApplySource =>
                /\ infixParseFns("(") # "nil"
                /\ precedence["("] > LOWEST
                /\ p.statements = <<ExprStmt(CallExpr(Identifier(<<"x">>),
                                                      <<Identifier(<<"y">>)>>))>>

----------------------------------------------------------------------------
(* C15 *)

\* C15: binary operators of equal precedence associate to the left:
\* "x op1 y op2 z" is ((x op1 y) op2 z).
C15_EqualPrecedenceLeft ==
    pc = "done" =>
        \A op1 \in BinaryOps, op2 \in BinaryOps :
            (precedence[OpToken(op1)] = precedence[OpToken(op2)]
                /\ l.input = ExprSource(op1, op2)) =>
                    p.statements = <<ExprStmt(InfixExpr(
                                        InfixExpr(Identifier(<<"x">>), op1, Identifier(<<"y">>)),
                                        op2, Identifier(<<"z">>)))>>

----------------------------------------------------------------------------
(* C16 *)

\* C16: unary minus binds tighter than every binary operator and a call
\* binds tightest: "-a op b" is ((-a) op b), "-f(x)" is (-(f(x))) and
\* "f(x) + 1" is ((f(x)) + 1).
C16_PrefixAndCallBindTightest ==
    pc = "done" =>
        /\ \A op \in BinaryOps :
            l.input = NegSource(op) =>
                p.statements = <<ExprStmt(InfixExpr(PrefixExpr(<<"-">>, Identifier(<<"a">>)),
                                                    op, Identifier(<<"b">>)))>>
        /\ l.input = NegCallSource =>
                p.statements = <<ExprStmt(PrefixExpr(<<"-">>,
                                    CallExpr(Identifier(<<"f">>), <<Identifier(<<"x">>)>>)))>>
        /\ l.input = CallSumSource =>
                p.statements = <<ExprStmt(InfixExpr(
                                    CallExpr(Identifier(<<"f">>), <<Identifier(<<"x">>)>>),
                                    <<"+">>, IntLiteral(1)))>>

----------------------------------------------------------------------------
(* C17 *)

\* C17: at a statement start of parse, an IDENT followed by `=` appends one
\* variable binding, a NEWLINE appends nothing, and any other token appends
\* one expression statement; the statements before are kept.
C17_StatementDispatch ==
    [][(pc = "parse" /\ ~end(p)) =>
        LET t == current(p)
            n == Len(p.statements)
            binding == t.Name = "IDENT" /\ peek(p).Name = "="
        IN /\ Len(p'.statements) >= n
           /\ SubSeq(p'.statements, 1, n) = p.statements
           /\ t.Name = "NEWLINE" => Len(p'.statements) = n
           /\ binding =>
                Len(p'.statements) = n + 1 /\ p'.statements[n + 1].type = "VarStmt"
           /\ (t.Name # "NEWLINE" /\ ~binding) =>
                Len(p'.statements) = n + 1 /\ p'.statements[n + 1].type = "ExprStmt"]_vars

\* a parse over a source of several lines has returned a binding and an
\* expression statement
C17_Witness ==
    /\ pc = "done"
    /\ \E i \in 1..Len(p.tokens) : p.tokens[i].Name = "NEWLINE"
    /\ \E i \in 1..Len(p.statements) : p.statements[i].type = "VarStmt"
    /\ \E i \in 1..Len(p.statements) : p.statements[i].type = "ExprStmt"
    /\ Len(p.statements) < Len(p.tokens) - 1

----------------------------------------------------------------------------
(* C18: expectPeek, applied to a parser at any cursor position              *)

\* the kinds the parser calls expectPeek with
ExpectKinds == {"=", ")", ":", "NEWLINE"}

\* a parser whose cursor has advanced to index i
ParserAt(tokens, i) ==
    [NewParser(tokens) EXCEPT !.index = i, !.trail = [k \in 1..(i + 1) |-> k - 1]]

\* every sequence of at most MaxTokens tokens of the kinds expectPeek is
\* called with and of three others, then EOF
ExpectInputs ==
    {[i \in 1..(Len(ks) + 1) |->
        IF i <= Len(ks) THEN Token(ks[i], KindText(ks[i]), 1, 0) ELSE Token("EOF", <<>>, 2, 0)] :
     ks \in StringsUpTo(ExpectKinds \cup {"IDENT", "NUM", "+"}, MaxTokens)}

InitExpect ==
    /\ l = NewLexer(<<>>)
    /\ p \in {ParserAt(ts, i) : ts \in ExpectInputs, i \in 0..MaxTokens}
    /\ p.index < Len(p.tokens)
    /\ pc = "expectPeek"
    /\ returned = <<>>
    /\ environment = NewEnv

\* a call p.expectPeek(t)
ExpectPeek ==
    /\ pc = "expectPeek"
    /\ \E t \in ExpectKinds :
        LET r == expectPeek(p, t)
        IN /\ p' = r.p
           /\ pc' = IF r.ok THEN "matched" ELSE "mismatched"
    /\ UNCHANGED <<l, returned, environment>>

NextExpect == ExpectPeek

SpecExpect == InitExpect /\ [][NextExpect]_vars

\* C18 as claimed: a failing expectPeek appends exactly one diagnostic,
\* changes nothing else but the cursor, and leaves the token that did not
\* match as the current token.
C18_FailedCheckAtUnexpected ==
    [][(pc = "expectPeek" /\ pc' = "mismatched") =>
        /\ Len(p'.errors) = Len(p.errors) + 1
        /\ [p' EXCEPT !.errors = p.errors, !.index = p.index, !.trail = p.trail] = p
        /\ ~end(p) => (p'.index = p.index + 1 /\ current(p') = peek(p))]_vars

\* C18, amended: a failing expectPeek appends exactly one diagnostic, which
\* names the token that did not match, and changes nothing else, the cursor
\* included: that token is still the next token and is not consumed.
C18_FailedCheckKeepsCursor ==
    [][(pc = "expectPeek" /\ pc' = "mismatched") =>
        /\ Len(p'.errors) = Len(p.errors) + 1
        /\ p'.errors[Len(p'.errors)].got = peek(p).Name
        /\ [p' EXCEPT !.errors = p.errors] = p
        /\ current(p') = current(p) /\ peek(p') = peek(p)]_vars

\* a check has failed in the middle of the tokens
C18_Witness ==
    /\ pc = "mismatched"
    /\ p.index > 0 /\ p.index + 1 < Len(p.tokens)
    /\ Len(p.errors) = 1

----------------------------------------------------------------------------
(* C19 *)

\* the block parses in progress after the first k events of the history h
InProgress(h, k) ==
    Cardinality({j \in 1..k : h[j].ev = "enter"}) - Cardinality({j \in 1..k : h[j].ev = "return"})

\* C19: the indentation depth is never negative, is the number of block
\* parses in progress wherever a block parse raises or lowers it, is back at
\* its value at entry when a block parse returns, and is 0 between the
\* statements of parse and when parse returns, malformed sources included.
C19_DepthBalanced ==
    /\ p.indentLevel >= 0
    /\ \A k \in 1..Len(p.blocks) :
        LET e == p.blocks[k]
        IN /\ e.level >= 0
           /\ e.level = InProgress(p.blocks, k)
           /\ e.ev = "enter" => e.level = e.entry + 1
           /\ e.ev = "return" => e.level = e.entry
    /\ p.indentLevel = InProgress(p.blocks, Len(p.blocks))
    /\ pc = "done" => p.indentLevel = 0

\* a parse with a block inside a block, and diagnostics, has returned
C19_Witness ==
    /\ pc = "done"
    /\ p.errors # <<>>
    /\ \E k \in 1..Len(p.blocks) : p.blocks[k].level = 2
    /\ Len(p.blocks) >= 4

----------------------------------------------------------------------------
(* C20 *)

\* the loops of the parser C20 names, and its two other loops
LoopNames ==
    {"parse", "parseBlockStmt", "skipBlank", "parseVarStmt", "parseCallArgs",
     "skipIndent", "parseExpr"}

\* C20: over tokens that end with EOF parse returns, the cursor stays on a
\* token and never moves back, and every iteration of every loop of the
\* parser that did not exit has moved the cursor forward.
C20_ParseReturns ==
    /\ <>(pc = "done")
    /\ [](p.index < Len(p.tokens))
    /\ [][p'.index >= p.index]_vars
    /\ [](\A k \in 1..Len(p.iters) :
            p.iters[k].loop \in LoopNames /\ p.iters[k].to > p.iters[k].from)
    /\ [](\A k \in 2..Len(p.trail) : p.trail[k] > p.trail[k - 1])

\* a parse in which each of the five loops has iterated has returned
C20_Witness ==
    /\ pc = "done"
    /\ \A n \in {"parse", "parseBlockStmt", "skipBlank", "parseVarStmt", "parseCallArgs"} :
        \E k \in 1..Len(p.iters) : p.iters[k].loop = n

----------------------------------------------------------------------------
(* C21 *)

\* the newline characters of s
Newlines(s) == {i \in 1..Len(s) : s[i] = "\n"}

\* the tokens named NEWLINE
NewlineTokens(tokens) == {i \in 1..Len(tokens) : tokens[i].Name = "NEWLINE"}

\* C21: a source without a double quote lexes to as many NEWLINE tokens as
\* it has newline characters, also when a line ends with a `#` comment.
C21_NewlinePerLine ==
    (pc = "lexed" /\ \A i \in 1..Len(l.input) : l.input[i] # "\"") =>
        Cardinality(NewlineTokens(l.tokens)) = Cardinality(Newlines(l.input))

----------------------------------------------------------------------------
(* C22 *)

\* "9223372036854775808", the least value that does not fit
Int64Overflow ==
    <<"9", "2", "2", "3", "3", "7", "2", "0", "3", "6", "8", "5", "4", "7", "7", "5", "8", "0", "8">>

\* texts of integer literal tokens: small values, an octal text and a text
\* that is not octal, the largest values that fit, and values that do not
IntTexts ==
    {<<"0">>, <<"1", "2">>, <<"0", "1", "7">>, <<"0", "8">>,
     <<"2", "1", "4", "7", "4", "8", "3", "6", "4", "8">>,
     MaxInt64, Int64Overflow,
     <<"1">> \o [i \in 1..19 |-> "0"],
     <<"0">> \o [i \in 1..21 |-> "7"],
     <<"0", "1">> \o [i \in 1..21 |-> "0"]}

\* every sequence of at most MaxTokens tokens, each an integer literal of
\* one of the texts or a `+`, then EOF
IntInputs ==
    {[i \in 1..(Len(ks) + 1) |->
        IF i > Len(ks) THEN Token("EOF", <<>>, 2, 0)
        ELSE IF ks[i] = <<"+">> THEN Token("+", <<"+">>, 1, 0)
        ELSE Token("NUM", ks[i], 1, 0)] :
     ks \in StringsUpTo(IntTexts \cup {<<"+">>}, MaxTokens)}

\* parseIntLiteral is the prefix handler of the integer literal token: it is
\* called with the cursor on one
InitInt ==
    /\ l = NewLexer(<<>>)
    /\ p \in {ParserAt(ts, i) : ts \in IntInputs, i \in 0..MaxTokens}
    /\ p.index < Len(p.tokens)
    /\ current(p).Name = "NUM"
    /\ pc = "parseIntLiteral"
    /\ returned = <<>>
    /\ environment = NewEnv

\* a call of parseIntLiteral; pc records whether it returned a node
ParseIntLiteral ==
    /\ pc = "parseIntLiteral"
    /\ LET r == parseIntLiteral(p)
       IN /\ p' = r.p
          /\ pc' = IF r.n.type = "nil" THEN "absent" ELSE "literal"
    /\ UNCHANGED <<l, returned, environment>>

NextInt == ParseIntLiteral

SpecInt == InitInt /\ [][NextInt]_vars

\* a decimal text without a leading zero whose value is above 1<<63 - 1
ExceedsInt64(t) ==
    /\ NoLeadingZero(t)
    /\ Len(t) > 19 \/ (Len(t) = 19 /\ DigitsAbove(t, MaxInt64))

\* C22: a call of parseIntLiteral on a text that does not convert (a decimal
\* text above 1<<63 - 1 among them) returns no node, appends one diagnostic
\* that names the text, and changes nothing else, the cursor included; on a
\* text that converts (a decimal text up to 1<<63 - 1 among them) it returns
\* a node and changes nothing.
C22_ConversionFailure ==
    [][pc = "parseIntLiteral" =>
        LET t == current(p).Val
        IN /\ ExceedsInt64(t) => pc' = "absent"
           /\ (NoLeadingZero(t) /\ ~ExceedsInt64(t)) => pc' = "literal"
           /\ pc' = "absent" =>
                /\ p'.errors = Append(p.errors, [kind |-> "int", val |-> t])
                /\ [p' EXCEPT !.errors = p.errors] = p
           /\ pc' = "literal" => p' = p]_vars

\* the text "9223372036854775808", after other tokens, was refused
C22_Witness ==
    /\ pc = "absent"
    /\ p.index > 0
    /\ current(p).Val = Int64Overflow
    /\ Len(p.errors) = 1

----------------------------------------------------------------------------
(* C23 *)

\* C23: the statement that follows a block at a shallower level is parsed
\* whole as the next statement of the enclosing sequence: the parse of a
\* block followed by a binding returns the construct and then the binding,
\* at the top level and inside an enclosing block.
C23_StatementAfterBlock ==
    pc = "done" =>
        \A c \in AfterBlockCases :
            l.input = c.src => p.errors = <<>> /\ p.statements = c.stmts

----------------------------------------------------------------------------
(* C24 *)

\* the names of identifier and keyword tokens
WordNames == {"IDENT"} \cup {keywordName(v) : v \in reserved}

\* C24: an iteration of lex never changes a token before the last one, and
\* changes the last one only if it is an identifier or keyword token: after
\* an INDENT, an ILLEGAL or any other token the tokens so far are kept and a
\* letter or digit starts a new token.
C24_MergeOnlyIntoWords ==
    [][(pc \in {"lexEnter", "lexLoop"} /\ pc' = "lexLoop") =>
        LET n == Len(l.tokens)
        IN /\ Len(l'.tokens) >= n
           /\ SubSeq(l'.tokens, 1, n - 1) = SubSeq(l.tokens, 1, n - 1)
           /\ (n > 0 /\ l.tokens[n].Name \notin WordNames) =>
                SubSeq(l'.tokens, 1, n) = l.tokens]_vars

----------------------------------------------------------------------------
(* C25: repl.Run, one line at a time                                       *)

\* at most MaxLines lines are read
MaxLines == 3

\* "if x y = 2": one diagnostic (no colon) and, after it, the binding y = 2
BadLineWithBinding == <<"i", "f", " ", "x", " ", "y", " ", "=", " ", "2">>

\* lines, with the number of diagnostics of each and the names it can bind:
\* bindings, a use, two lines with a diagnostic, and three lines on which
\* the process panics (in StartLex, in Evaluate, in Program.String)
ReplCases ==
    {[src |-> <<"x", " ", "=", " ", "1">>, errors |-> 0, binds |-> {<<"x">>}],
     [src |-> <<"x", " ", "=", " ", "x", " ", "+", " ", "1">>, errors |-> 0, binds |-> {<<"x">>}],
     [src |-> <<"y", " ", "=", " ", "x">>, errors |-> 0, binds |-> {<<"y">>}],
     [src |-> <<"x">>, errors |-> 0, binds |-> {}],
     [src |-> BadLineWithBinding, errors |-> 1, binds |-> {}],
     [src |-> <<"y", " ", "=", " ", "(", "2">>, errors |-> 1, binds |-> {}],
     [src |-> <<>>, errors |-> 0, binds |-> {}],
     [src |-> <<"x", " ", "=", " ", "p", "r", "i", "n", "t", "(", "1", ")">>, errors |-> 0, binds |-> {}],
     [src |-> <<"1", " ", "+">>, errors |-> 0, binds |-> {}]}

ReplLines == {c.src : c \in ReplCases}

\* environment := interpreter.NewEnv(), before the loop
InitRepl ==
    /\ l = NewLexer(<<>>)
    /\ p = NoParser
    /\ pc = "repl"
    /\ returned = <<>>
    /\ environment = NewEnv

\* an iteration of the loop of Run on a line the scanner has read
ReplLine ==
    /\ pc = "repl" /\ Len(returned) < MaxLines
    /\ \E line \in ReplLines :
        \E r \in {replLine(environment, line)} :
           /\ l' = r.l
           /\ p' = r.p
           /\ environment' = r.env
           /\ pc' = IF r.panicked THEN "panic" ELSE "repl"
           /\ returned' = IF r.l.panicked THEN returned
                          ELSE Append(returned, [input |-> r.l.input, tokens |-> r.l.tokens])

\* scanner.Scan() reports the end of the input: Run returns
ReplReturn ==
    /\ pc = "repl"
    /\ pc' = "returned"
    /\ UNCHANGED <<l, p, returned, environment>>

NextRepl == ReplLine \/ ReplReturn

SpecRepl == InitRepl /\ [][NextRepl]_vars

\* C25: every line of the loop of Run is parsed by a parser of its own (its
\* cursor began at 0, over the tokens of this line, and its diagnostics are
\* those of this line alone); a line with a diagnostic leaves the
\* environment as it was; a line changes no binding but those it makes; and
\* a binding of an earlier line is read by a later one.
C25_ReplLines ==
    [][(pc = "repl" /\ pc' = "repl") =>
        \A c \in ReplCases :
            l'.input = c.src =>
                /\ p'.trail[1] = 0 /\ p'.tokens = l'.tokens
                /\ Len(p'.errors) = c.errors
                /\ p'.errors # <<>> => environment' = environment
                /\ DOMAIN environment' \subseteq DOMAIN environment \cup c.binds
                /\ \A k \in DOMAIN environment \ c.binds :
                        k \in DOMAIN environment' /\ environment'[k] = environment[k]
                /\ (c.src = <<"y", " ", "=", " ", "x">> /\ <<"x">> \in DOMAIN environment) =>
                        (<<"y">> \in DOMAIN environment' /\ environment'[<<"y">>] = environment[<<"x">>])]_vars

\* "x = 1", then the line with a diagnostic, then "y = x": x and y are 1
C25_Witness ==
    /\ pc = "repl"
    /\ Len(returned) = 3
    /\ returned[1].input = <<"x", " ", "=", " ", "1">>
    /\ returned[2].input = BadLineWithBinding
    /\ returned[3].input = <<"y", " ", "=", " ", "x">>
    /\ DOMAIN environment = {<<"x">>, <<"y">>}
    /\ environment[<<"x">>] = IntItem(1) /\ environment[<<"y">>] = IntItem(1)
    /\ p.errors = <<>>

====
